---- MODULE Spec2Model ----
(***************************************************************************)
(* A model of the force-directed bubble chart of webpack-d3-bubbles        *)
(* (src/unnamed/part_000): the closure state of bubbleChart(), the async   *)
(* loader at the bottom of the file, the presenter functions chart,        *)
(* createNodes, ticked and groupBubbles, and the force simulation engine   *)
(* they drive.  The engine itself is library code that is not part of the  *)
(* source file; its operations (setNodes, setForce, alpha, restart, stop   *)
(* and the step algorithm) are modelled from section 4.1 of the            *)
(* specification and from the comments at the call sites.                  *)
(*                                                                         *)
(* Numbers.  alpha is kept in thousandths (AlphaOne = 1.0), strengths in   *)
(* halves (StrengthDen), velocityDecay in tenths (DecayDen), positions and *)
(* velocities in whole pixels; divisions truncate toward zero.             *)
(***************************************************************************)
EXTENDS Integers, Sequences, FiniteSets, TLC

VARIABLES
  loader,        \* position of the async loader: "fetch", "json", "chart", "done",
                 \* "failed" (load failed), "threw" (chart threw)
  logged,        \* number of console.error calls
  chartCalls,    \* number of invocations of chart(selector, rawData)
  svg,           \* closure var svg: FALSE is null, TRUE is the appended <svg>
  bubbles,       \* closure var bubbles: [null, els]; els are the <g class="bubble"> elements
  nodes,         \* closure var nodes
  simNodes,      \* the engine's node array
  alpha,         \* the engine's energy scalar, in thousandths
  running,       \* the engine's timer is scheduled (automatic stepping active)
  forces,        \* the engine's named force contributors
  forceStrength, \* closure var forceStrength, in halves
  notified,      \* ticked has been invoked at least once
  tickedThrew,   \* ticked was invoked while bubbles was null (TypeError)
  restarts,      \* number of re-triggers of groupBubbles after initialization
  groupRun,      \* number of groupBubbles calls since the last engine step
  sinceRestart,  \* number of engine steps since the last restart
  chartPc,       \* position inside chart: "idle" or "afterSetNodes"
  chargeIn,      \* argument of the last direct application of charge
  chargeOut      \* its result: [applied, value]

vars == <<loader, logged, chartCalls, svg, bubbles, nodes, simNodes, alpha,
          running, forces, forceStrength, notified, tickedThrew, restarts,
          groupRun, sinceRestart, chartPc, chargeIn, chargeOut>>

chartVars == <<svg, bubbles, nodes>>
engineVars == <<simNodes, alpha, running, forces>>
chargeVars == <<chargeIn, chargeOut>>

-----------------------------------------------------------------------------
(* Bounds of the model *)

MaxRecords == 2     \* longest rawData array
MaxRestarts == 2    \* re-triggers of groupBubbles after initialization

-----------------------------------------------------------------------------
(* Constants of the program *)

width == 940
height == 600
radius == 22
ForceStrengthNum == 1     \* forceStrength = 0.5 = ForceStrengthNum / StrengthDen
StrengthDen == 2
VelocityDecayNum == 2     \* velocityDecay(0.2) = VelocityDecayNum / DecayDen
DecayDen == 10
AlphaOne == 1000          \* alpha(1), in thousandths

center == [x |-> width \div 3, y |-> height \div 2]

(* Engine configuration the source leaves to the library; the specification *)
(* treats the values as configuration (section 9).                          *)
alphaMin == 1             \* stop threshold, 0.001
alphaDecay == 900         \* fraction of alpha lost per step, in thousandths

-----------------------------------------------------------------------------
(* Arithmetic *)

Div(a, b) == IF a >= 0 THEN a \div b ELSE -((-a) \div b)

RECURSIVE pow(_, _)
pow(b, e) == IF e = 0 THEN 1 ELSE b * pow(b, e - 1)

-----------------------------------------------------------------------------
(* Inputs *)

RawRecords ==
  { [id |-> 1, name |-> "a", theme |-> "groei", tag |-> "t1"],
    [id |-> 2, name |-> "b", theme |-> "voeding", tag |-> "t2"] }

RawArrays == UNION { [1..n -> RawRecords] : n \in 0..MaxRecords }

\* Outcomes of Math.random() * width, Math.random() * height
RandomPoints == { [x |-> 0, y |-> 0], [x |-> 600, y |-> 500] }

-----------------------------------------------------------------------------
(* Force contributors *)

\* Mutant of charge: proportional to the diameter
chargeDiameter(d) == (-(2 * d.radius)) * forceStrength

\* function charge(d): -Math.pow(d.radius, 2.0) * forceStrength, in halves
charge(d) == (-pow(d.radius, 2)) * forceStrength

\* d3.forceX().strength(s).x(x) and d3.forceY().strength(s).y(y)
forceX(s, x) == [kind |-> "forceX", strength |-> s, target |-> x]
forceY(s, y) == [kind |-> "forceY", strength |-> s, target |-> y]
\* d3.forceManyBody().strength(charge): the strength is the accessor charge
forceManyBody == [kind |-> "forceManyBody", accessor |-> "charge"]

NoForces == [n \in {} |-> 0]

\* setForce(name, forceFn): registers or replaces the contributor of that name
setForce(fs, name, f) ==
  [n \in (DOMAIN fs) \cup {name} |-> IF n = name THEN f ELSE fs[n]]

\* Mutant of simulation: the 'x' contributor is not registered at construction
simulationNoX ==
  [ velocityDecay |-> VelocityDecayNum,
    forces |-> setForce(setForce(NoForces, "y", forceY(forceStrength, center.y)),
                        "charge", forceManyBody),
    listener |-> "ticked" ]

\* var simulation = d3.forceSimulation().velocityDecay(0.2).force(...)...
simulation ==
  [ velocityDecay |-> VelocityDecayNum,
    forces |-> setForce(
                 setForce(
                   setForce(NoForces, "x", forceX(forceStrength, center.x)),
                   "y", forceY(forceStrength, center.y)),
                 "charge", forceManyBody),
    listener |-> "ticked" ]

-----------------------------------------------------------------------------
(* Engine: the step algorithm *)

\* Cooling: alpha loses the fraction alphaDecay each step
decay(a) == (a * (AlphaOne - alphaDecay)) \div AlphaOne

\* Number of steps from alpha = a until alpha is below alphaMin
RECURSIVE StepsToSettle(_)
StepsToSettle(a) == IF a < alphaMin THEN 0 ELSE 1 + StepsToSettle(decay(a))

StepCap == StepsToSettle(AlphaOne) + 1

\* Pull of an x- or y-centering contributor on coordinate c
Pull(f, c, a) == Div((f.target - c) * f.strength * a, StrengthDen * AlphaOne)

\* Repulsion on node i from node j along one axis; coincident nodes are
\* pushed apart along x in the direction jig (the engine's random jiggle)
Repulsion(ns, i, j, a, jig, axis) ==
  LET dx0 == ns[j].x - ns[i].x
      dy  == ns[j].y - ns[i].y
      same == dx0 = 0 /\ dy = 0
      dx  == IF same THEN (IF i < j THEN jig ELSE -jig) ELSE dx0
      l   == IF same THEN 1 ELSE dx0 * dx0 + dy * dy
      d   == IF axis = "x" THEN dx ELSE dy
  IN Div(Div(d * charge(ns[j]) * a, StrengthDen * AlphaOne), l)

\* Sum of the repulsions on node i from the nodes 1..j other than i
RECURSIVE SumRepulsion(_, _, _, _, _, _)
SumRepulsion(ns, i, j, a, jig, axis) ==
  IF j = 0 THEN 0
  ELSE (IF j = i THEN 0 ELSE Repulsion(ns, i, j, a, jig, axis))
       + SumRepulsion(ns, i, j - 1, a, jig, axis)

\* Step 1 for node i along one axis: the sum of the registered contributions,
\* each computed against ns, the positions of the previous step
NetDelta(fs, ns, i, a, jig, axis) ==
  (IF axis \in DOMAIN fs THEN Pull(fs[axis], ns[i][axis], a) ELSE 0)
  + (IF "charge" \in DOMAIN fs THEN SumRepulsion(ns, i, Len(ns), a, jig, axis) ELSE 0)

\* Step 2: velocity = (velocity + net_delta) * velocityDecay, with
\* velocityDecay the fraction of velocity retained per step
Damp(v, delta) == Div((v + delta) * simulation.velocityDecay, DecayDen)

\* Step 3: position = position + velocity
Integrate(n) == [n EXCEPT !.x = @ + n.vx, !.y = @ + n.vy]

\* Steps 1-3 for node i
tickNode(fs, ns, i, a, jig) ==
  Integrate([ns[i] EXCEPT !.vx = Damp(@, NetDelta(fs, ns, i, a, jig, "x")),
                          !.vy = Damp(@, NetDelta(fs, ns, i, a, jig, "y"))])

tick(fs, ns, a, jig) == [i \in 1..Len(ns) |-> tickNode(fs, ns, i, a, jig)]

\* setNodes: the engine initializes each node's index and velocity
initializeNodes(ns) ==
  [i \in 1..Len(ns) |->
     [f \in (DOMAIN ns[i]) \cup {"index", "vx", "vy"} |->
        IF f = "index" THEN i - 1
        ELSE IF f \in {"vx", "vy"} THEN 0
        ELSE ns[i][f]]]

\* setNodes side effect: stepping (re)starts if alpha is above the threshold
setNodesRunning(r, a) == r \/ a > alphaMin

-----------------------------------------------------------------------------
(* Presenter *)

\* createNodes(rawData): one node per record, at a random point; pts[i] is
\* the point drawn for record i
createNodes(rawData, pts) ==
  [i \in 1..Len(rawData) |->
     [ id |-> rawData[i].id,
       radius |-> radius,
       name |-> rawData[i].name,
       theme |-> rawData[i].theme,
       tag |-> rawData[i].tag,
       x |-> pts[i].x,
       y |-> pts[i].y ]]

\* 'translate(' + d.x + ',' + d.y + ')'
translate(d) == "translate(" \o ToString(d.x) \o "," \o ToString(d.y) \o ")"

\* svg.selectAll('.bubble').data(nodes, key), enter().append('g'), merge:
\* the selection is empty, so every datum enters, in data order; element i
\* is bound to node i.  The circle and text children, their styles and the
\* entrance transitions are not modelled.
enterBubbles(ns) ==
  [ null |-> FALSE,
    els |-> [i \in 1..Len(ns) |->
               [ datum |-> i, key |-> ns[i].name, transform |-> "" ]] ]

\* Mutant of ticked: the node is looked up by the element's key (its name)
tickedByKey(b, ns) ==
  [b EXCEPT !.els = [i \in 1..Len(b.els) |->
                       [b.els[i] EXCEPT !.transform =
                          translate(ns[CHOOSE k \in 1..Len(ns) :
                                         /\ ns[k].name = b.els[i].key
                                         /\ \A m \in 1..(k - 1) : ns[m].name # b.els[i].key])]]]

\* function ticked(): sets every element's transform from its bound node
ticked(b, ns) ==
  [b EXCEPT !.els = [i \in 1..Len(b.els) |->
                       [b.els[i] EXCEPT !.transform = translate(ns[b.els[i].datum])]]]

\* Mutant of groupBubbles: alpha is not reset
groupBubblesNoAlpha ==
  /\ forces' = setForce(forces, "x", forceX(forceStrength, center.x))
  /\ alpha' = alpha
  /\ running' = TRUE
  /\ sinceRestart' = 0
  /\ groupRun' = groupRun + 1

\* Mutant of groupBubbles: the timer is not restarted
groupBubblesNoRestart ==
  /\ forces' = setForce(forces, "x", forceX(forceStrength, center.x))
  /\ alpha' = AlphaOne
  /\ running' = running
  /\ sinceRestart' = 0
  /\ groupRun' = groupRun + 1

\* Mutant of groupBubbles: the force set is rebuilt with the 'x' contributor only
groupBubblesDropsForces ==
  /\ forces' = setForce(NoForces, "x", forceX(forceStrength, center.x))
  /\ alpha' = AlphaOne
  /\ running' = TRUE
  /\ sinceRestart' = 0
  /\ groupRun' = groupRun + 1

\* function groupBubbles(): simulation.force('x', ...); simulation.alpha(1).restart()
groupBubbles ==
  /\ forces' = setForce(forces, "x", forceX(forceStrength, center.x))
  /\ alpha' = AlphaOne
  /\ running' = TRUE
  /\ sinceRestart' = 0
  /\ groupRun' = groupRun + 1

\* chart(selector, rawData) up to and including simulation.nodes(nodes)
chartSetup(rawData, pts) ==
  /\ nodes' = initializeNodes(createNodes(rawData, pts))
  /\ svg' = TRUE
  /\ bubbles' = enterBubbles(nodes')
  /\ simNodes' = nodes'
  /\ chartCalls' = chartCalls + 1

\* var chart = function chart(selector, rawData)
chart(rawData, pts) ==
  /\ chartSetup(rawData, pts)
  /\ groupBubbles

\* Mutant of bubbleChart: simulation.stop() is missing
bubbleChartNoStop ==
  /\ svg = FALSE
  /\ bubbles = [null |-> TRUE, els |-> <<>>]
  /\ nodes = <<>>
  /\ simNodes = <<>>
  /\ alpha = AlphaOne
  /\ forces = simulation.forces
  /\ running = TRUE

\* State of the closure after bubbleChart() has run: the engine was created
\* (which starts its timer) and stopped at once
bubbleChart ==
  /\ svg = FALSE
  /\ bubbles = [null |-> TRUE, els |-> <<>>]
  /\ nodes = <<>>
  /\ simNodes = <<>>
  /\ alpha = AlphaOne
  /\ forces = simulation.forces
  /\ running = FALSE

-----------------------------------------------------------------------------
(* Specification of the program *)

NoCharge == [applied |-> FALSE, value |-> 0]

Init ==
  /\ forceStrength = ForceStrengthNum
  /\ bubbleChart
  /\ loader = "fetch"
  /\ logged = 0
  /\ chartCalls = 0
  /\ notified = FALSE
  /\ tickedThrew = FALSE
  /\ restarts = 0
  /\ groupRun = 0
  /\ sinceRestart = 0
  /\ chartPc = "idle"
  /\ chargeIn = [radius |-> radius]
  /\ chargeOut = NoCharge

\* await fetch('./data/data.json') resolves
FetchResolve ==
  /\ loader = "fetch"
  /\ loader' = "json"
  /\ UNCHANGED <<logged, chartCalls, chartVars, engineVars, forceStrength, notified,
                 tickedThrew, restarts, groupRun, sinceRestart, chartPc, chargeVars>>

\* await fetch(...) rejects: catch (err) { console.error(err) }
FetchReject ==
  /\ loader = "fetch"
  /\ loader' = "failed"
  /\ logged' = logged + 1
  /\ UNCHANGED <<chartCalls, chartVars, engineVars, forceStrength, notified,
                 tickedThrew, restarts, groupRun, sinceRestart, chartPc, chargeVars>>

\* Mutant of JsonReject: the catch block falls back to an empty chart
JsonRejectFallback ==
  /\ loader = "json"
  /\ loader' = "failed"
  /\ logged' = logged + 1
  /\ chart(<<>>, <<>>)
  /\ UNCHANGED <<forceStrength, notified, tickedThrew, restarts, chartPc, chargeVars>>

\* await res.json() rejects (the body cannot be parsed)
JsonReject ==
  /\ loader = "json"
  /\ loader' = "failed"
  /\ logged' = logged + 1
  /\ UNCHANGED <<chartCalls, chartVars, engineVars, forceStrength, notified,
                 tickedThrew, restarts, groupRun, sinceRestart, chartPc, chargeVars>>

\* await res.json() resolves with an array: myBubbleChart('body', data)
JsonResolve ==
  /\ loader = "json"
  /\ \E rawData \in RawArrays :
       \E pts \in [1..Len(rawData) -> RandomPoints] :
         chart(rawData, pts)
  /\ loader' = "done"
  /\ UNCHANGED <<logged, forceStrength, notified, tickedThrew, restarts, chartPc,
                 chargeVars>>

\* await res.json() resolves with a value that is no array: rawData.map
\* throws inside chart before nodes is assigned, and the error is logged
JsonResolveNotArray ==
  /\ loader = "json"
  /\ chartCalls' = chartCalls + 1
  /\ loader' = "threw"
  /\ logged' = logged + 1
  /\ UNCHANGED <<chartVars, engineVars, forceStrength, notified, tickedThrew,
                 restarts, groupRun, sinceRestart, chartPc, chargeVars>>

\* Mutant of Step: the stop check of step 6 is missing
StepNeverStops ==
  /\ running
  /\ alpha' = decay(alpha)
  /\ running' = TRUE
  /\ notified' = TRUE
  /\ sinceRestart' = IF sinceRestart < StepCap THEN sinceRestart + 1 ELSE sinceRestart
  /\ groupRun' = 0
  /\ UNCHANGED <<loader, logged, chartCalls, svg, forces, forceStrength, restarts,
                 chartPc, chargeVars>>
  /\ \E jig \in {-1, 1} :
       \E ns \in {tick(forces, simNodes, alpha, jig)} :
         /\ simNodes' = ns
         /\ nodes' = ns
         /\ IF bubbles.null
              THEN tickedThrew' = TRUE /\ bubbles' = bubbles
              ELSE tickedThrew' = tickedThrew /\ bubbles' = ticked(bubbles, ns)

\* One scheduled step of the engine: steps 1-6 of the step algorithm, with
\* the 'tick' listener ticked called at step 5
Step ==
  /\ running
  /\ alpha' = decay(alpha)
  /\ running' = ~(decay(alpha) < alphaMin)
  /\ notified' = TRUE
  /\ sinceRestart' = IF sinceRestart < StepCap THEN sinceRestart + 1 ELSE sinceRestart
  /\ groupRun' = 0
  /\ UNCHANGED <<loader, logged, chartCalls, svg, forces, forceStrength, restarts,
                 chartPc, chargeVars>>
  /\ \E jig \in {-1, 1} :
       \E ns \in {tick(forces, simNodes, alpha, jig)} :
         /\ simNodes' = ns
         /\ nodes' = ns
         /\ IF bubbles.null
              THEN tickedThrew' = TRUE /\ bubbles' = bubbles
              ELSE tickedThrew' = tickedThrew /\ bubbles' = ticked(bubbles, ns)

\* Mutant of GroupBubbles: the nodes are handed to the engine again, which
\* resets their velocities
GroupBubblesResetsNodes ==
  /\ loader = "done"
  /\ restarts < MaxRestarts
  /\ restarts' = restarts + 1
  /\ groupBubbles
  /\ simNodes' = initializeNodes(simNodes)
  /\ nodes' = simNodes'
  /\ UNCHANGED <<loader, logged, chartCalls, svg, bubbles, forceStrength,
                 notified, tickedThrew, chartPc, chargeVars>>

\* groupBubbles() triggered again after initialization
GroupBubbles ==
  /\ loader = "done"
  /\ restarts < MaxRestarts
  /\ restarts' = restarts + 1
  /\ groupBubbles
  /\ UNCHANGED <<loader, logged, chartCalls, chartVars, simNodes, forceStrength,
                 notified, tickedThrew, chartPc, chargeVars>>

Next ==
  \/ FetchResolve
  \/ FetchReject
  \/ JsonReject
  \/ JsonResolve
  \/ JsonResolveNotArray
  \/ Step
  \/ GroupBubbles

Spec == Init /\ [][Next]_vars

-----------------------------------------------------------------------------
(* The same program with the two engine calls of chart as separate steps:   *)
(* simulation.nodes(nodes) starts stepping as its side effect, and an       *)
(* engine step may run before groupBubbles() is applied.                    *)

\* chart(selector, rawData) up to and including simulation.nodes(nodes)
ChartBegin ==
  /\ loader = "json"
  /\ chartPc = "idle"
  /\ \E rawData \in RawArrays :
       \E pts \in [1..Len(rawData) -> RandomPoints] :
         chartSetup(rawData, pts)
  /\ running' = setNodesRunning(running, alpha)
  /\ loader' = "chart"
  /\ chartPc' = "afterSetNodes"
  /\ UNCHANGED <<logged, alpha, forces, forceStrength, notified, tickedThrew,
                 restarts, groupRun, sinceRestart, chargeVars>>

\* the rest of chart: groupBubbles()
ChartEnd ==
  /\ chartPc = "afterSetNodes"
  /\ groupBubbles
  /\ loader' = "done"
  /\ chartPc' = "idle"
  /\ UNCHANGED <<logged, chartCalls, chartVars, simNodes, forceStrength, notified,
                 tickedThrew, restarts, chargeVars>>

NextSplit ==
  \/ FetchResolve
  \/ FetchReject
  \/ JsonReject
  \/ ChartBegin
  \/ ChartEnd
  \/ JsonResolveNotArray
  \/ Step
  \/ GroupBubbles

SpecSplit == Init /\ [][NextSplit]_vars

-----------------------------------------------------------------------------
(* The program with the engine's scheduling: while stepping is active the   *)
(* timer runs the next step.  In Spec the transitions that lower alpha from *)
(* a state with stepping active are exactly the engine steps                *)
(* (CoolingIsStep), so weak fairness of Cooling is weak fairness of Step.   *)

Cooling == running /\ alpha' = decay(alpha)

FairSpec == Spec /\ WF_alpha(Cooling)

CoolingIsStep == [][(Cooling /\ alpha' # alpha) <=> Step]_vars

-----------------------------------------------------------------------------
(* The charge contributor applied to one node, for the radii and strengths  *)
(* of the specification's test                                              *)

Radii == {10, 22, 50}
Strengths == {0, 1, 2}     \* 0, 0.5 and 1, in halves
Velocities == {-3, 0}

ChargeNodes ==
  { [ id |-> r.id, radius |-> rad, name |-> r.name, theme |-> r.theme,
      tag |-> r.tag, x |-> p.x, y |-> p.y, vx |-> v, vy |-> 0 ] :
      r \in RawRecords, rad \in Radii, p \in RandomPoints, v \in Velocities }

InitCharge ==
  /\ forceStrength \in Strengths
  /\ bubbleChart
  /\ loader = "fetch"
  /\ logged = 0
  /\ chartCalls = 0
  /\ notified = FALSE
  /\ tickedThrew = FALSE
  /\ restarts = 0
  /\ groupRun = 0
  /\ sinceRestart = 0
  /\ chartPc = "idle"
  /\ chargeIn \in ChargeNodes
  /\ chargeOut = NoCharge

\* The engine asks the charge contributor for the strength of one node
ApplyCharge ==
  /\ ~chargeOut.applied
  /\ chargeOut' = [applied |-> TRUE, value |-> charge(chargeIn)]
  /\ UNCHANGED <<loader, logged, chartCalls, chartVars, engineVars, forceStrength,
                 notified, tickedThrew, restarts, groupRun, sinceRestart, chartPc,
                 chargeIn>>

NextCharge == ApplyCharge

SpecCharge == InitCharge /\ [][NextCharge]_vars

-----------------------------------------------------------------------------
(* Properties *)

\* chart has assigned nodes to the engine
Handed == loader \in {"chart", "done"}

\* The state of the closure right after bubbleChart()
PostConstruction ==
  /\ nodes = <<>>
  /\ simNodes = <<>>
  /\ svg = FALSE
  /\ bubbles.null
  /\ bubbles.els = <<>>
  /\ ~running
  /\ alpha = AlphaOne
  /\ forces = simulation.forces
  /\ ~notified

\* C1: a groupBubbles re-trigger (restart(1.0)) leaves alpha at exactly 1.0;
\* every engine step makes alpha strictly smaller; the step that takes alpha
\* below the stop threshold ends automatic stepping, alpha is never below
\* the threshold while stepping is active, and while stepping is not active
\* nothing but a restart changes alpha or the nodes' positions and velocities.
C1_CoolingUntilSettled ==
  [][ /\ (restarts' = restarts + 1 => alpha' = AlphaOne)
      /\ (Step => alpha' < alpha)
      /\ ((Step /\ alpha' < alphaMin) => ~running')
      /\ (alpha < alphaMin => ~running)
      /\ ((loader = "done" /\ ~running /\ restarts' = restarts)
            => (alpha' = alpha /\ simNodes' = simNodes)) ]_vars

\* A settled engine after a re-trigger: alpha has crossed the threshold
C1_Witness ==
  /\ loader = "done"
  /\ restarts >= 1
  /\ sinceRestart >= 1
  /\ alpha < alphaMin
  /\ ~running
  /\ Len(simNodes) >= 1

\* C2: restart is called finitely often (at most MaxRestarts re-triggers), and
\* then automatic stepping eventually stops for good; the number of steps
\* since the last restart never exceeds the number the decay rate and the
\* stop threshold determine.
C2_EventuallySettled ==
  /\ <>[](~running)
  /\ [](sinceRestart <= StepsToSettle(AlphaOne))
  /\ []((loader = "done" /\ ~running) => sinceRestart = StepsToSettle(AlphaOne))

\* Settled after the last permitted restart, after exactly the bounded
\* number of steps
C2_Witness ==
  /\ loader = "done"
  /\ restarts = MaxRestarts
  /\ ~running
  /\ sinceRestart = StepsToSettle(AlphaOne)
  /\ Len(simNodes) >= 1

\* C3: until chart assigns nodes to the engine (also when the load never
\* succeeds) the engine is stopped, no step-completion notification has been
\* emitted, and ticked was never invoked with bubbles still null.
C3_StoppedUntilInitialized ==
  /\ (~Handed => (~running /\ ~notified /\ simNodes = <<>> /\ bubbles.null))
  /\ ~tickedThrew

\* The load has failed for good and the engine is still stopped
C3_Witness ==
  /\ loader = "failed"
  /\ ~running
  /\ ~notified
  /\ bubbles.null

\* C4: every groupBubbles re-trigger leaves alpha at 1.0 and automatic
\* stepping active, and throws nothing; a call that directly follows another
\* groupBubbles call (no step in between) leaves the engine, the nodes and
\* the elements as the first call left them.
C4_RetriggerIdempotent ==
  [][ restarts' = restarts + 1 =>
        /\ alpha' = AlphaOne
        /\ running'
        /\ ~tickedThrew'
        /\ logged' = logged
        /\ (groupRun >= 1 =>
              <<alpha, running, forces, simNodes, nodes, bubbles, svg>>'
                = <<alpha, running, forces, simNodes, nodes, bubbles, svg>>) ]_vars

\* groupBubbles called twice in succession on an engine that had settled
C4_Witness ==
  /\ groupRun = 2
  /\ restarts = 2
  /\ notified
  /\ alpha = AlphaOne
  /\ running

\* C5: once ticked has handled a step-completion notification, every node
\* has exactly one element, and that element's transform is the translate of
\* the node's current x and y.
C5_TransformFollowsNodes ==
  notified =>
    /\ ~bubbles.null
    /\ Len(bubbles.els) = Len(simNodes)
    /\ \A i \in 1..Len(simNodes) :
         /\ bubbles.els[i].datum = i
         /\ bubbles.els[i].transform =
              "translate(" \o ToString(simNodes[i].x) \o ","
                           \o ToString(simNodes[i].y) \o ")"

\* Two nodes that have been moved by a step, with their elements following
C5_Witness ==
  /\ notified
  /\ Len(simNodes) = 2
  /\ simNodes[1].vx # 0
  /\ simNodes[2].vy # 0
  /\ simNodes[1].x # simNodes[1].y
  /\ bubbles.els[2].transform = translate(simNodes[2])

\* C6: once nodes have been handed to the engine, every transition that
\* changes the engine's node array or any node's x, y, vx or vy is an engine
\* step.
C6_OnlyEngineMovesNodes ==
  [][ (Handed /\ (simNodes' # simNodes \/ nodes' # nodes)) => Step ]_vars

\* Presenter calls interleaved with engine steps on a non-empty node set
C6_Witness ==
  /\ loader = "done"
  /\ restarts >= 1
  /\ sinceRestart >= 1
  /\ Len(simNodes) >= 1
  /\ simNodes[1].vx # 0

\* C7: after a failed load the failure was logged once, chart was never
\* invoked and the closure is in its post-construction state; nothing
\* follows a failed load (no retry); chart is only ever invoked once the
\* load has completed.
C7_LoadFailureHaltsChart ==
  /\ [](loader = "failed" => (logged = 1 /\ chartCalls = 0 /\ PostConstruction))
  /\ [](chartCalls > 0 => loader \in {"chart", "done", "threw"})
  /\ [](loader \in {"fetch", "json"} => (chartCalls = 0 /\ logged = 0))
  /\ [][loader = "failed" => loader' = "failed"]_vars

\* The load failed: logged, and no chart
C7_Witness ==
  /\ loader = "failed"
  /\ logged = 1
  /\ chartCalls = 0
  /\ svg = FALSE

C9_GroupBubblesFrame ==
  [][ groupRun' = groupRun + 1 =>
        /\ "x" \in DOMAIN forces'
        /\ forces'["x"] = forceX(forceStrength, center.x)
        /\ DOMAIN forces' = DOMAIN forces
        /\ \A n \in (DOMAIN forces) \ {"x"} : forces'[n] = forces[n]
        /\ forceStrength' = forceStrength
        /\ (restarts' = restarts + 1 =>
              <<simNodes, nodes, svg, bubbles>>' = <<simNodes, nodes, svg, bubbles>>) ]_vars

\* A re-trigger on nodes that steps have moved
C9_Witness ==
  /\ restarts >= 1
  /\ groupRun = 1
  /\ sinceRestart = 0
  /\ Len(simNodes) = 2
  /\ simNodes[1].vx # 0

\* The three contributors are registered and 'x' pulls toward the center
ForcesConfigured ==
  /\ DOMAIN forces = {"x", "y", "charge"}
  /\ forces["x"] = forceX(forceStrength, center.x)
  /\ forces["y"] = forceY(forceStrength, center.y)
  /\ forces["charge"] = forceManyBody

\* C10: whenever the engine can execute a step, the contributors 'x', 'y'
\* and 'charge' are all registered and 'x' targets the shared center, also
\* when the step runs between simulation.nodes(nodes) and groupBubbles().
C10_StepsSeeAllForces ==
  (running \/ notified) => ForcesConfigured

\* A step has run between simulation.nodes(nodes) and groupBubbles()
C10_Witness ==
  /\ chartPc = "afterSetNodes"
  /\ notified
  /\ Len(simNodes) >= 1
  /\ simNodes[1].vx # 0

====
